---- MODULE Spec2Model ----
(***************************************************************************)
(* Model of the spam/ham notebook spam_ham.ipynb: the cells that load and  *)
(* split the CSV, tokenise the messages, wrap them in EmailDataset, train, *)
(* evaluate, save and reload the model, and predict.  Library calls        *)
(* (pandas, scikit-learn, transformers, torch) are modelled at the call    *)
(* site by what the call does with the arguments the notebook passes.      *)
(***************************************************************************)
EXTENDS Integers, Sequences, FiniteSets, TLC

VARIABLES
    pc,               \* the next cell to run: "cell3" .. "cell15", or "failed"
    error,            \* the exception that stopped the run, "none" if none
    file,             \* s_spam.csv: [columns, rows]
    df,               \* the dataframe of cell 3 after the Category map
    train_df,         \* rows of the train partition, in split order
    test_df,          \* rows of the test partition, in split order
    train_encodings,  \* tokenizer output for train_df['Message']
    test_encodings,   \* tokenizer output for test_df['Message']
    train_dataset,    \* EmailDataset(train_encodings, train labels)
    test_dataset,     \* EmailDataset(test_encodings, test labels)
    model,            \* the model object bound to the name `model`
    tokenizer,        \* the tokenizer object bound to the name `tokenizer`
    artifact,         \* contents of ./spam_classifier_model
    np_rng,           \* state of numpy's global random generator
    torch_rng,        \* state of torch's global random generator
    item,             \* the outcome of the last EmailDataset.__getitem__ call
    predictions,      \* the predict calls made so far, in order
    prev_split,       \* the partitions of the previous run of the notebook
    enc_L,            \* tokenizer call alone: the max_length passed
    enc_texts,        \* tokenizer call alone: the batch of texts
    enc_batch,        \* tokenizer call alone: the batch call's output
    enc_single        \* tokenizer call alone: the single-text calls' outputs

vars == <<pc, error, file, df, train_df, test_df, train_encodings,
          test_encodings, train_dataset, test_dataset, model, tokenizer,
          artifact, np_rng, torch_rng, item, predictions, prev_split,
          enc_L, enc_texts, enc_batch, enc_single>>

pipe_vars == <<pc, error, file, df, train_df, test_df, train_encodings,
               test_encodings, train_dataset, test_dataset, model, tokenizer,
               artifact, np_rng, torch_rng, item, predictions, prev_split>>

enc_vars == <<enc_L, enc_texts, enc_batch, enc_single>>

(***************************************************************************)
(* Bounds of the model.                                                    *)
(***************************************************************************)
MaxRows == 3          \* rows of the input table
MaxPredicts == 3      \* predict calls per run
RngStates == 2        \* distinct states of a random generator
EncMaxLen == 4        \* largest small max_length passed to the tokenizer alone
EncMaxBatch == 2      \* largest batch passed to the tokenizer alone
MaxSplitRows == 12    \* rows of the tables passed to the split alone

(***************************************************************************)
(* Program constants.                                                      *)
(***************************************************************************)
max_length == 512     \* max_length=512 in cell 5 and in predict
random_state == 42    \* random_state=42 in cell 3
CLS == 101            \* [CLS] of bert-base-uncased
SEP == 102            \* [SEP] of bert-base-uncased
PAD == 0              \* [PAD] of bert-base-uncased
UNK == 100            \* [UNK] of bert-base-uncased
seed == 42            \* TrainingArguments' seed, which Trainer passes to set_seed
num_train_epochs == 3
per_device_train_batch_size == 8
TrainSize == 4457     \* "Training dataset size: 4457", the output of cell 3
TestSize == 1115      \* "Test dataset size: 1115", the output of cell 3
NaN == -1             \* pandas' NaN, the value Series.map gives an unmapped key

None == [none |-> TRUE]

(***************************************************************************)
(* Sequence helpers.                                                       *)
(***************************************************************************)
Min(a, b) == IF a < b THEN a ELSE b

Max(a, b) == IF a > b THEN a ELSE b

Range(s) == {s[i] : i \in 1..Len(s)}

RECURSIVE Rep(_, _)
\* s repeated n times
Rep(s, n) ==
    IF n = 0 THEN <<>>
    ELSE IF n = 1 THEN s
    ELSE LET h == Rep(s, n \div 2)
         IN IF n % 2 = 0 THEN h \o h ELSE h \o h \o s

RECURSIVE SetMax(_)
SetMax(S) ==
    IF S = {} THEN 0
    ELSE LET x == CHOOSE y \in S : TRUE IN Max(x, SetMax(S \ {x}))

RECURSIVE SeqsUpTo(_, _)
\* the sequences over S of length at most n
SeqsUpTo(S, n) ==
    IF n = 0 THEN {<<>>}
    ELSE LET shorter == SeqsUpTo(S, n - 1)
         IN shorter \cup {Append(s, x) : s \in {t \in shorter : Len(t) = n - 1}, x \in S}

(***************************************************************************)
(* Texts.  A message is the sequence of its whitespace-separated words.    *)
(***************************************************************************)
Words == {"Hello", "hello", "world", "hellos", "wkly"}

ShortText == <<"Hello">>

TwoWordText == <<"hellos", "world">>

UnknownText == <<"wkly", "hello", "world">>

\* a message of 600 words, longer than max_length once tokenised
LongText == Rep(<<"hello", "world">>, 300)

(***************************************************************************)
(* BertTokenizer.from_pretrained('bert-base-uncased').  The vocabulary is  *)
(* the pre-trained one; this is the part of it the texts above use.        *)
(***************************************************************************)
\* do_lower_case of the uncased model
Lowercase(word) == IF word = "Hello" THEN "hello" ELSE word

\* WordPiece: the longest-match split of a word into vocabulary entries
WordPiece(word) ==
    CASE word = "hello" -> <<7592>>
      [] word = "world" -> <<2088>>
      [] word = "hellos" -> <<7592, 2015>>    \* hello ##s
      [] OTHER -> <<UNK>>

RECURSIVE Tokenize(_)
\* the wordpiece ids of a text, without special tokens
Tokenize(text) ==
    IF Len(text) = 0 THEN <<>>
    ELSE IF Len(text) = 1 THEN WordPiece(Lowercase(text[1]))
    ELSE LET h == Len(text) \div 2
         IN Tokenize(SubSeq(text, 1, h)) \o Tokenize(SubSeq(text, h + 1, Len(text)))

\* the length of a text's token sequence with [CLS] and [SEP], before
\* truncation and padding
TokenizedLen(text) == Len(Tokenize(text)) + 2

\* truncation=False: nothing is dropped
TruncateNone(ids, L) == ids

\* truncation=True, max_length=L: drop tokens from the right until the
\* sequence with its two special tokens fits L
Truncate(ids, L) ==
    IF Len(ids) + 2 > L THEN SubSeq(ids, 1, Max(L - 2, 0)) ELSE ids

\* build_inputs_with_special_tokens: [CLS] ids [SEP]
WithSpecialTokens(ids) == <<CLS>> \o ids \o <<SEP>>

\* one text's encoding before padding
EncodeOne(text, L) ==
    LET ids == WithSpecialTokens(Truncate(Tokenize(text), L))
    IN [input_ids |-> ids,
        token_type_ids |-> [i \in 1..Len(ids) |-> 0],
        attention_mask |-> [i \in 1..Len(ids) |-> 1]]

\* padding='max_length': every sequence is padded to L
PadTargetMaxLength(lens, L) == L

\* padding=True pads to the longest sequence of the call
\* (padding='max_length' would pad to L)
PadTarget(lens, L) == SetMax(lens)

\* padding_side='left': the pad positions come first
PadLeft(e, target) ==
    LET k == target - Len(e.input_ids)
    IN [input_ids |-> [i \in 1..k |-> PAD] \o e.input_ids,
        token_type_ids |-> [i \in 1..k |-> 0] \o e.token_type_ids,
        attention_mask |-> [i \in 1..k |-> 0] \o e.attention_mask]

\* padding that leaves the attention mask at 1 on the pad positions
PadMaskOnes(e, target) ==
    LET k == target - Len(e.input_ids)
    IN [input_ids |-> e.input_ids \o [i \in 1..k |-> PAD],
        token_type_ids |-> e.token_type_ids \o [i \in 1..k |-> 0],
        attention_mask |-> e.attention_mask \o [i \in 1..k |-> 1]]

\* padding_side='right' of the BERT tokenizer: pad one encoding on the right
\* up to target, with the pad id, token type 0 and attention mask 0
Pad(e, target) ==
    LET k == target - Len(e.input_ids)
    IN [input_ids |-> e.input_ids \o [i \in 1..k |-> PAD],
        token_type_ids |-> e.token_type_ids \o [i \in 1..k |-> 0],
        attention_mask |-> e.attention_mask \o [i \in 1..k |-> 0]]

\* tokenizer(texts, truncation=True, padding=True, max_length=L): a
\* BatchEncoding, each key a list with one entry per text.  A single string
\* is encoded as the batch of that one text.
TokenizerCall(texts, L) ==
    LET raw == [i \in 1..Len(texts) |-> EncodeOne(texts[i], L)]
        target == PadTarget({Len(raw[i].input_ids) : i \in 1..Len(texts)}, L)
        enc == [i \in 1..Len(texts) |-> Pad(raw[i], target)]
    IN [input_ids |-> [i \in 1..Len(texts) |-> enc[i].input_ids],
        token_type_ids |-> [i \in 1..Len(texts) |-> enc[i].token_type_ids],
        attention_mask |-> [i \in 1..Len(texts) |-> enc[i].attention_mask]]

(***************************************************************************)
(* Cell 3: pd.read_csv, the Category map and train_test_split.             *)
(***************************************************************************)
\* the rows an input file is drawn from; the last one has a category that
\* is no key of the map
RowPool ==
    { [Category |-> "ham", Message |-> ShortText],
      [Category |-> "spam", Message |-> TwoWordText],
      [Category |-> "Spam", Message |-> UnknownText] }

AllColumns == {"Category", "Message"}

\* the input files: any rows under the two headers, and files in which one
\* of the two columns goes under another name, so that the header the
\* notebook asks for is missing
Files ==
    {[columns |-> AllColumns, rows |-> r] : r \in SeqsUpTo(RowPool, MaxRows)}
    \cup {[columns |-> c, rows |-> r] :
            c \in {{"Category", "message"}, {"category", "Message"}},
            r \in {t \in SeqsUpTo(RowPool, MaxRows) : Len(t) = MaxRows}}

\* the map with the two values exchanged, {'ham': 1, 'spam': 0}
CategoryMapSwapped(category) ==
    IF category = "ham" THEN 1
    ELSE IF category = "spam" THEN 0
    ELSE NaN

\* df['Category'].map({'ham': 0, 'spam': 1}): a value that is no key of the
\* dict maps to NaN
CategoryMap(category) ==
    IF category = "ham" THEN 0
    ELSE IF category = "spam" THEN 1
    ELSE NaN

\* the dataframe after the map: each row keeps its index label
MappedFrame(rows) ==
    [i \in 1..Len(rows) |->
        [index |-> i - 1,
         Category |-> CategoryMap(rows[i].Category),
         Message |-> rows[i].Message]]

\* a test size rounded down, floor(test_size * n_samples)
NTestFloor(n) == (2 * n) \div 10

\* n_test = ceil(test_size * n_samples) with test_size=0.2
NTest(n) == (2 * n + 9) \div 10

\* n_train = n_samples - n_test (train_size is None)
NTrain(n) == n - NTest(n)

\* np.random.RandomState(42).permutation(n) for n = 0 .. 13 (MT19937 seeded
\* with 42, numpy's legacy shuffle), entry n + 1 holding the permutation of
\* 0 .. n-1
Permutation42 ==
    << <<>>,
       <<0>>,
       <<1, 0>>,
       <<0, 1, 2>>,
       <<1, 3, 0, 2>>,
       <<1, 4, 2, 0, 3>>,
       <<0, 1, 5, 2, 4, 3>>,
       <<0, 1, 5, 2, 4, 3, 6>>,
       <<1, 5, 0, 7, 2, 4, 3, 6>>,
       <<7, 1, 5, 0, 8, 2, 4, 3, 6>>,
       <<8, 1, 5, 0, 7, 2, 9, 4, 3, 6>>,
       <<5, 0, 9, 10, 2, 1, 8, 4, 7, 3, 6>>,
       <<10, 9, 0, 8, 5, 2, 1, 11, 4, 7, 3, 6>>,
       <<11, 9, 0, 8, 5, 2, 1, 12, 4, 7, 10, 3, 6>> >>

\* the permutation the global generator in state rng would give
\* (random_state=None)
ShuffleGlobal(n, rng) == [i \in 1..n |-> (i - 1 + rng) % n]

\* ShuffleSplit with random_state=42: check_random_state(42) makes a fresh
\* RandomState(42) for the call; the global generator is not read
ShufflePermutation(n, rng) == Permutation42[n + 1]

\* ind_test = permutation[:n_test]
TestIndices(perm, n) == SubSeq(perm, 1, NTest(n))

\* a train slice that starts one position early, on the last test index
TrainIndicesOverlap(perm, n) == SubSeq(perm, NTest(n), NTest(n) + NTrain(n))

\* ind_train = permutation[n_test:(n_test + n_train)]
TrainIndices(perm, n) == SubSeq(perm, NTest(n) + 1, NTest(n) + NTrain(n))

\* _safe_indexing(df, indices): the rows at the positions, in that order
TakeRows(frame, indices) == [i \in 1..Len(indices) |-> frame[indices[i] + 1]]

\* a cell that is run again after it has raised
AfterFailureRetry(stage) == stage

\* an exception no cell catches ends the run: the cells below the one that
\* raised are not run, and the cell is not run again
AfterFailure(stage) == "failed"

Cell3 ==
    /\ pc = "cell3"
    /\ IF "Category" \notin file.columns
       THEN \* df['Category'] raises KeyError
            /\ pc' = AfterFailure(pc)
            /\ error' = "KeyError"
            /\ UNCHANGED <<df, train_df, test_df>>
       ELSE LET frame == MappedFrame(file.rows)
                n == Len(frame)
                perm == ShufflePermutation(n, np_rng)
            IN /\ df' = frame
               /\ IF NTrain(n) = 0
                  THEN \* train_test_split raises ValueError: the train set
                       \* would be empty
                       /\ pc' = AfterFailure(pc)
                       /\ error' = "ValueError"
                       /\ UNCHANGED <<train_df, test_df>>
                  ELSE /\ train_df' = TakeRows(frame, TrainIndices(perm, n))
                       /\ test_df' = TakeRows(frame, TestIndices(perm, n))
                       /\ pc' = "cell5"
                       /\ UNCHANGED error
    /\ UNCHANGED <<file, train_encodings, test_encodings, train_dataset,
                   test_dataset, model, tokenizer, artifact, np_rng,
                   torch_rng, item, predictions, prev_split>>
    /\ UNCHANGED enc_vars

(***************************************************************************)
(* Cell 5: the tokenizer and the two batch encodings.                      *)
(***************************************************************************)
Messages(frame) == [i \in 1..Len(frame) |-> frame[i].Message]

\* the labels of a partition taken in the opposite row order
LabelsReversed(frame) ==
    [i \in 1..Len(frame) |-> frame[Len(frame) - i + 1].Category]

\* list(frame['Category']): the labels in the partition's row order
Labels(frame) == [i \in 1..Len(frame) |-> frame[i].Category]

\* tokenizer(list(frame['Message']), truncation=True, padding=True,
\* max_length=512): the batch call of cell 5
EncodeTraining(texts) == TokenizerCall(texts, max_length)

Cell5 ==
    /\ pc = "cell5"
    /\ tokenizer' = [vocab |-> "bert-base-uncased", path |-> "hub"]
    /\ IF "Message" \notin file.columns
       THEN \* train_df['Message'] raises KeyError
            /\ pc' = AfterFailure(pc)
            /\ error' = "KeyError"
            /\ UNCHANGED <<train_encodings, test_encodings>>
       ELSE /\ train_encodings' = EncodeTraining(Messages(train_df))
            /\ test_encodings' = EncodeTraining(Messages(test_df))
            /\ pc' = "cell7"
            /\ UNCHANGED error
    /\ UNCHANGED <<file, df, train_df, test_df, train_dataset, test_dataset,
                   model, artifact, np_rng, torch_rng, item, predictions,
                   prev_split>>
    /\ UNCHANGED enc_vars

(***************************************************************************)
(* Cell 7: EmailDataset.                                                   *)
(***************************************************************************)
\* EmailDataset.__init__
EmailDataset(encodings, labels) == [encodings |-> encodings, labels |-> labels]

\* EmailDataset.__len__
DatasetLen(ds) == Len(ds.labels)

\* indexing that accepts only 0 <= idx < len
PyIndexNoWrap(list, idx) ==
    IF 0 <= idx /\ idx < Len(list)
    THEN [ok |-> TRUE, value |-> list[idx + 1]]
    ELSE [ok |-> FALSE, value |-> <<>>]

\* list[idx] of Python: a negative idx counts from the end, and an idx
\* outside [-len, len) raises IndexError
PyIndex(list, idx) ==
    IF 0 <= idx /\ idx < Len(list)
    THEN [ok |-> TRUE, value |-> list[idx + 1]]
    ELSE IF 0 - Len(list) <= idx /\ idx < 0
    THEN [ok |-> TRUE, value |-> list[Len(list) + idx + 1]]
    ELSE [ok |-> FALSE, value |-> <<>>]

\* EmailDataset.__getitem__: val[idx] for every key of the encodings, then
\* labels[idx]
GetItem(ds, idx) ==
    LET ids == PyIndex(ds.encodings.input_ids, idx)
        types == PyIndex(ds.encodings.token_type_ids, idx)
        mask == PyIndex(ds.encodings.attention_mask, idx)
        label == PyIndex(ds.labels, idx)
    IN IF ids.ok /\ types.ok /\ mask.ok /\ label.ok
       THEN [raised |-> "none",
             input_ids |-> ids.value,
             token_type_ids |-> types.value,
             attention_mask |-> mask.value,
             labels |-> label.value]
       ELSE [raised |-> "IndexError"]

Cell7 ==
    /\ pc = "cell7"
    /\ train_dataset' = EmailDataset(train_encodings, Labels(train_df))
    /\ test_dataset' = EmailDataset(test_encodings, Labels(test_df))
    /\ pc' = "cell9"
    /\ UNCHANGED <<error, file, df, train_df, test_df, train_encodings,
                   test_encodings, model, tokenizer, artifact, np_rng,
                   torch_rng, item, predictions, prev_split>>
    /\ UNCHANGED enc_vars

\* a __getitem__ that takes the label off the end of the list (labels.pop())
StoreAfterPop(ds, idx) ==
    [ds EXCEPT !.labels = SubSeq(ds.labels, 1, Len(ds.labels) - 1)]

\* the store after __getitem__(idx) or __len__(): neither assigns to
\* self.encodings or self.labels, and torch.tensor copies what it is given
StoreAfterGet(ds, idx) == ds

\* a caller (the Trainer's data loader, or the notebook user) asks one of
\* the two datasets for its length and for the item at an index
DatasetGet ==
    /\ pc = "cell9"
    /\ \E which \in {"train", "test"} :
         LET ds == IF which = "train" THEN train_dataset ELSE test_dataset
         IN \E idx \in (0 - DatasetLen(ds) - 1)..DatasetLen(ds) :
              /\ item' = [dataset |-> which, idx |-> idx, size |-> DatasetLen(ds),
                          result |-> GetItem(ds, idx)]
              /\ train_dataset' = IF which = "train"
                                   THEN StoreAfterGet(train_dataset, idx)
                                   ELSE train_dataset
              /\ test_dataset' = IF which = "test"
                                  THEN StoreAfterGet(test_dataset, idx)
                                  ELSE test_dataset
    /\ UNCHANGED <<pc, error, file, df, train_df, test_df, train_encodings,
                   test_encodings, model, tokenizer, artifact, np_rng,
                   torch_rng, predictions, prev_split>>
    /\ UNCHANGED enc_vars

(***************************************************************************)
(* Cells 9 to 13: the model, training, evaluation, save and reload.        *)
(***************************************************************************)
\* the parameters a model can have: the classifier's bias and the
\* contribution of a token to the two class scores
WeightChoices ==
    { [bias |-> <<0, 0>>, hello |-> <<0, 2>>, world |-> <<2, 0>>],
      [bias |-> <<1, 0>>, hello |-> <<0, 0>>, world |-> <<0, 0>>],
      [bias |-> <<0, 1>>, hello |-> <<0, 0>>, world |-> <<0, 0>>] }

\* a load that leaves the module in training mode (dropout active)
FromPretrainedTrainMode(weights) == [weights |-> weights, training |-> TRUE]

\* from_pretrained: the parameters as stored, the module in eval mode
FromPretrained(weights) == [weights |-> weights, training |-> FALSE]

\* optimizer steps of trainer.train(): epochs * ceil(n / batch size)
TrainSteps(n) ==
    num_train_epochs
    * ((n + per_device_train_batch_size - 1) \div per_device_train_batch_size)

\* a Category column that holds NaN is a float column
HasNaN(labels) == \E i \in 1..Len(labels) : labels[i] = NaN

Cell9 ==
    /\ pc = "cell9"
    /\ item' = None \* a value returned by __getitem__ is not kept
    /\ np_rng' = seed % RngStates
    /\ \E w \in WeightChoices :
         IF HasNaN(train_dataset.labels)
         THEN \* float labels: the loss of trainer.train() raises ValueError
              /\ model' = FromPretrained(w)
              /\ torch_rng' = seed % RngStates
              /\ pc' = AfterFailure(pc)
              /\ error' = "ValueError"
         ELSE /\ model' = [weights |-> w, training |-> TRUE]
              /\ torch_rng' = (seed + TrainSteps(DatasetLen(train_dataset))) % RngStates
              /\ pc' = "cell11"
              /\ UNCHANGED error
    /\ UNCHANGED <<file, df, train_df, test_df, train_encodings,
                   test_encodings, train_dataset, test_dataset, tokenizer,
                   artifact, predictions, prev_split>>
    /\ UNCHANGED enc_vars

\* trainer.evaluate() puts the model in eval mode
Cell11 ==
    /\ pc = "cell11"
    /\ model' = [model EXCEPT !.training = FALSE]
    /\ pc' = "cell13"
    /\ UNCHANGED <<error, file, df, train_df, test_df, train_encodings,
                   test_encodings, train_dataset, test_dataset, tokenizer,
                   artifact, np_rng, torch_rng, item, predictions, prev_split>>
    /\ UNCHANGED enc_vars

\* a save that writes the encoder's parameters and leaves the classifier's
\* bias at its initial value
SavePretrainedWithoutHead(m) == [m.weights EXCEPT !.bias = <<0, 0>>]

\* model.save_pretrained: the state dict of the model in memory, whatever
\* its mode
SavePretrained(m) == m.weights

\* a cell 13 that saves model and tokenizer and goes on with the objects in
\* memory, without the two from_pretrained calls
Cell13WithoutReload ==
    /\ pc = "cell13"
    /\ artifact' = [model |-> model.weights, tokenizer |-> tokenizer.vocab]
    /\ pc' = "cell15"
    /\ UNCHANGED <<error, file, df, train_df, test_df, train_encodings,
                   test_encodings, train_dataset, test_dataset, model,
                   tokenizer, np_rng, torch_rng, item, predictions, prev_split>>
    /\ UNCHANGED enc_vars

\* save_pretrained of model and tokenizer, then from_pretrained of both
Cell13 ==
    /\ pc = "cell13"
    /\ artifact' = [model |-> SavePretrained(model), tokenizer |-> tokenizer.vocab]
    /\ model' = FromPretrained(artifact'.model)
    /\ tokenizer' = [vocab |-> artifact'.tokenizer, path |-> "./spam_classifier_model"]
    /\ pc' = "cell15"
    /\ UNCHANGED <<error, file, df, train_df, test_df, train_encodings,
                   test_encodings, train_dataset, test_dataset, np_rng,
                   torch_rng, item, predictions, prev_split>>
    /\ UNCHANGED enc_vars

(***************************************************************************)
(* Cell 15: predict.                                                       *)
(***************************************************************************)
TokenWeight(w, tok) ==
    IF tok = 7592 THEN w.hello
    ELSE IF tok = 2088 THEN w.world
    ELSE <<0, 0>>

RECURSIVE SumWeights(_, _, _)
SumWeights(w, toks, c) ==
    IF toks = {} THEN 0
    ELSE LET t == CHOOSE x \in toks : TRUE
         IN TokenWeight(w, t)[c + 1] + SumWeights(w, toks \ {t}, c)

\* model(**inputs).logits for one sequence: the two class scores.  Positions
\* with attention_mask 0 do not contribute; in training mode dropout, driven
\* by torch's generator, removes a position
Forward(m, ids, mask, rng) ==
    LET kept == {i \in 1..Len(ids) :
                    /\ mask[i] = 1
                    /\ (m.training => i # (rng % Len(ids)) + 1)}
        toks == {ids[i] : i \in kept}
    IN <<m.weights.bias[1] + SumWeights(m.weights, toks, 0),
         m.weights.bias[2] + SumWeights(m.weights, toks, 1)>>

\* an argmax that returns the index of the last maximal value
ArgMaxLast(logits) ==
    CHOOSE i \in 0..(Len(logits) - 1) :
        /\ \A j \in 0..(Len(logits) - 1) : logits[j + 1] <= logits[i + 1]
        /\ \A j \in (i + 1)..(Len(logits) - 1) : logits[j + 1] < logits[i + 1]

\* torch.argmax(logits, dim=-1).item(): the index of the first maximal value
ArgMax(logits) ==
    CHOOSE i \in 0..(Len(logits) - 1) :
        /\ \A j \in 0..(Len(logits) - 1) : logits[j + 1] <= logits[i + 1]
        /\ \A j \in 0..(i - 1) : logits[j + 1] < logits[i + 1]

\* 'spam' if prediction == 1 else 'ham'
LabelOf(prediction) == IF prediction = 1 THEN "spam" ELSE "ham"

\* the messages predict is called with
PredictPool == {ShortText, TwoWordText, LongText}

\* a tokenizer call without truncation: the limit is never below the
\* message's own length
EncodeInferenceUntruncated(message) ==
    TokenizerCall(<<message>>, Max(max_length, TokenizedLen(message)))

\* tokenizer(message, return_tensors='pt', truncation=True, padding=True,
\* max_length=512): the call of predict, a batch of one
EncodeInference(message) == TokenizerCall(<<message>>, max_length)

Predict ==
    /\ pc = "cell15"
    /\ Len(predictions) < MaxPredicts
    /\ \E message \in PredictPool :
       \E inputs \in {EncodeInference(message)} :
         LET logits == Forward(model, inputs.input_ids[1],
                               inputs.attention_mask[1], torch_rng)
             prediction == ArgMax(logits)
         IN predictions' = Append(predictions,
                [message |-> message, inputs |-> inputs, logits |-> logits,
                 label |-> LabelOf(prediction), model |-> model,
                 tokenizer |-> tokenizer])
    /\ torch_rng' = IF model.training THEN (torch_rng + 1) % RngStates ELSE torch_rng
    /\ UNCHANGED <<pc, error, file, df, train_df, test_df, train_encodings,
                   test_encodings, train_dataset, test_dataset, model,
                   tokenizer, artifact, np_rng, item, prev_split>>
    /\ UNCHANGED enc_vars

(***************************************************************************)
(* Running the notebook again from the top in a fresh kernel, on the same  *)
(* file, after a run has reached its last cell or has failed.  numpy's     *)
(* generator is seeded afresh from the system's entropy; torch's is too,   *)
(* and is kept at one state here because set_seed overwrites it in cell 9  *)
(* before anything reads it.  ./spam_classifier_model stays on disk.       *)
(***************************************************************************)
Restart ==
    /\ pc \in {"cell15", "failed"}
    /\ pc' = "cell3"
    /\ error' = "none"
    /\ prev_split' = [train |-> train_df, test |-> test_df]
    /\ df' = <<>>
    /\ train_df' = <<>>
    /\ test_df' = <<>>
    /\ train_encodings' = None
    /\ test_encodings' = None
    /\ train_dataset' = None
    /\ test_dataset' = None
    /\ model' = None
    /\ tokenizer' = None
    /\ item' = None
    /\ predictions' = <<>>
    /\ np_rng' \in 0..(RngStates - 1)
    /\ torch_rng' = 0
    /\ UNCHANGED <<file, artifact>>
    /\ UNCHANGED enc_vars

Init ==
    /\ pc = "cell3"
    /\ error = "none"
    /\ file \in Files
    /\ df = <<>>
    /\ train_df = <<>>
    /\ test_df = <<>>
    /\ train_encodings = None
    /\ test_encodings = None
    /\ train_dataset = None
    /\ test_dataset = None
    /\ model = None
    /\ tokenizer = None
    /\ artifact = None
    /\ np_rng \in 0..(RngStates - 1)
    /\ torch_rng = 0
    /\ item = None
    /\ predictions = <<>>
    /\ prev_split = None
    /\ enc_L = 0
    /\ enc_texts = <<>>
    /\ enc_batch = None
    /\ enc_single = <<>>

Next ==
    \/ Cell3
    \/ Cell5
    \/ Cell7
    \/ DatasetGet
    \/ Cell9
    \/ Cell11
    \/ Cell13
    \/ Predict
    \/ Restart

Spec == Init /\ [][Next]_vars

(***************************************************************************)
(* The tokenizer call on its own: the batch call of cell 5 and the         *)
(* single-message call of predict, applied to the same texts under a       *)
(* max_length drawn from a set that holds the notebook's 512.              *)
(***************************************************************************)
EncTexts == {ShortText, TwoWordText, UnknownText, LongText}

EncLengths == (3..EncMaxLen) \cup {max_length}

InitEnc ==
    /\ pc = "encoder"
    /\ error = "none"
    /\ file = None
    /\ df = <<>>
    /\ train_df = <<>>
    /\ test_df = <<>>
    /\ train_encodings = None
    /\ test_encodings = None
    /\ train_dataset = None
    /\ test_dataset = None
    /\ model = None
    /\ tokenizer = [vocab |-> "bert-base-uncased", path |-> "hub"]
    /\ artifact = None
    /\ np_rng = 0
    /\ torch_rng = 0
    /\ item = None
    /\ predictions = <<>>
    /\ prev_split = None
    /\ enc_L \in EncLengths
    /\ enc_texts \in SeqsUpTo(EncTexts, EncMaxBatch) \ {<<>>}
    /\ enc_batch = None
    /\ enc_single = <<>>

\* tokenizer(list(...), truncation=True, padding=True, max_length=L)
EncodeBatch ==
    /\ enc_batch = None
    /\ enc_batch' = TokenizerCall(enc_texts, enc_L)
    /\ UNCHANGED <<enc_L, enc_texts, enc_single>>
    /\ UNCHANGED pipe_vars

\* tokenizer(message, truncation=True, padding=True, max_length=L) for the
\* next text of the batch, alone
EncodeSingle ==
    /\ Len(enc_single) < Len(enc_texts)
    /\ enc_single' = Append(enc_single,
                        TokenizerCall(<<enc_texts[Len(enc_single) + 1]>>, enc_L))
    /\ UNCHANGED <<enc_L, enc_texts, enc_batch>>
    /\ UNCHANGED pipe_vars

NextEnc ==
    \/ EncodeBatch
    \/ EncodeSingle

SpecEnc == InitEnc /\ [][NextEnc]_vars

(***************************************************************************)
(* Properties of the load/split step (cell 3).                             *)
(***************************************************************************)
(* Cell 3 on its own, on tables of up to MaxSplitRows rows with valid      *)
(* categories: the sizes train_test_split gives.                           *)
(***************************************************************************)
\* row i of a table in which every k-th row is spam
PatternRow(k, i) ==
    IF i % k = 0
    THEN [Category |-> "spam", Message |-> TwoWordText]
    ELSE [Category |-> "ham", Message |-> ShortText]

SplitFiles ==
    {[columns |-> AllColumns, rows |-> [i \in 1..n |-> PatternRow(k, i)]] :
        n \in 0..MaxSplitRows, k \in 1..3}

InitSplit ==
    /\ pc = "cell3"
    /\ error = "none"
    /\ file \in SplitFiles
    /\ df = <<>>
    /\ train_df = <<>>
    /\ test_df = <<>>
    /\ train_encodings = None
    /\ test_encodings = None
    /\ train_dataset = None
    /\ test_dataset = None
    /\ model = None
    /\ tokenizer = None
    /\ artifact = None
    /\ np_rng \in 0..(RngStates - 1)
    /\ torch_rng = 0
    /\ item = None
    /\ predictions = <<>>
    /\ prev_split = None
    /\ enc_L = 0
    /\ enc_texts = <<>>
    /\ enc_batch = None
    /\ enc_single = <<>>

NextSplit == Cell3

SpecSplit == InitSplit /\ [][NextSplit]_vars

(***************************************************************************)
IndexSet(frame) == {frame[i].index : i \in 1..Len(frame)}

SplitProduced == train_df # <<>> \/ test_df # <<>>

PastCell3 == pc \in {"cell5", "cell7", "cell9", "cell11", "cell13", "cell15"}

C2_SplitDeterministic ==
    (prev_split # None /\ pc # "cell3") =>
        /\ IndexSet(train_df) = IndexSet(prev_split.train)
        /\ IndexSet(test_df) = IndexSet(prev_split.test)

C2_Witness ==
    /\ prev_split # None
    /\ pc = "cell5"
    /\ Len(prev_split.train) >= 2
    /\ Len(train_df) >= 2

LoadedRows == Range(df) \cup Range(train_df) \cup Range(test_df)

\* C3: every loaded row whose category is "ham" has label 0 and every row
\* whose category is "spam" has label 1; a row has label 1 exactly when its
\* category is "spam", and the label of a row whose category is one of the
\* two is in {0, 1}.
C3_LabelMapping ==
    \A r \in LoadedRows :
        LET category == file.rows[r.index + 1].Category
        IN /\ category = "ham" => r.Category = 0
           /\ category = "spam" => r.Category = 1
           /\ r.Category = 1 <=> category = "spam"
           /\ category \in {"ham", "spam"} => r.Category \in {0, 1}

C3_Witness ==
    /\ pc = "cell5"
    /\ \E r \in Range(train_df) :
         r.Category = 1 /\ file.rows[r.index + 1].Category = "spam"
    /\ \E r \in Range(train_df) :
         r.Category = 0 /\ file.rows[r.index + 1].Category = "ham"

InvalidFile ==
    \/ file.columns # AllColumns
    \/ \E i \in 1..Len(file.rows) : file.rows[i].Category \notin {"ham", "spam"}

StoredLabels ==
    (IF train_dataset = None THEN {} ELSE Range(train_dataset.labels))
    \cup (IF test_dataset = None THEN {} ELSE Range(test_dataset.labels))

\* C4: when the input lacks the Category or the Message column, or a row's
\* category is neither "ham" nor "spam", the load step fails and produces
\* no partitions, and no label outside {0, 1} reaches the store.
C4_InvalidInputRejected ==
    /\ (InvalidFile /\ pc # "cell3") =>
           /\ pc = "failed"
           /\ error # "none"
           /\ ~SplitProduced
    /\ StoredLabels \subseteq {0, 1}

(***************************************************************************)
(* Properties of the tokenizer call (cell 5 and predict).                  *)
(***************************************************************************)
\* the encodings produced so far, each with the text it encodes: row i of
\* the batch output, and the outputs of the single-text calls
EncodedBatchRows ==
    IF enc_batch = None THEN {}
    ELSE {[text |-> enc_texts[i],
           ids |-> enc_batch.input_ids[i],
           mask |-> enc_batch.attention_mask[i]] : i \in 1..Len(enc_texts)}

EncodedSingles ==
    {[text |-> enc_texts[i],
      ids |-> enc_single[i].input_ids[1],
      mask |-> enc_single[i].attention_mask[1]] : i \in 1..Len(enc_single)}

\* C5 as stated: every encoding, of a batch or of a single message, has
\* exactly L token ids and exactly L attention-mask entries.
C5_ExactlyMaxLength ==
    \A r \in EncodedBatchRows \cup EncodedSingles :
        Len(r.ids) = enc_L /\ Len(r.mask) = enc_L

\* C5, amended: every encoding has as many attention-mask entries as token
\* ids, and at most L; a text whose token sequence exceeds L is cut to
\* exactly L, a shorter one keeps all its tokens; encoded alone a text has
\* min(L, its tokenized length) positions, and in a batch every text has
\* the length of the batch's longest encoding.
C5_LengthAtMostL ==
    /\ \A r \in EncodedBatchRows \cup EncodedSingles :
         /\ Len(r.ids) = Len(r.mask)
         /\ Len(r.ids) <= enc_L
         /\ TokenizedLen(r.text) >= enc_L => Len(r.ids) = enc_L
         /\ TokenizedLen(r.text) <= enc_L => Len(r.ids) >= TokenizedLen(r.text)
    /\ \A r \in EncodedSingles : Len(r.ids) = Min(enc_L, TokenizedLen(r.text))
    /\ \A r \in EncodedBatchRows :
         Len(r.ids) = SetMax({Min(enc_L, TokenizedLen(enc_texts[i])) :
                                i \in 1..Len(enc_texts)})

C5_Witness ==
    /\ enc_batch # None
    /\ Len(enc_single) = Len(enc_texts)
    /\ \E r \in EncodedBatchRows :
         TokenizedLen(r.text) > enc_L /\ Len(r.ids) = enc_L
    /\ \E r \in EncodedSingles : Len(r.ids) < enc_L

\* C6 as stated: a message's encoding in a batch equals its encoding alone.
C6_BatchEqualsSingle ==
    enc_batch # None =>
        \A i \in 1..Len(enc_single) :
            /\ enc_batch.input_ids[i] = enc_single[i].input_ids[1]
            /\ enc_batch.attention_mask[i] = enc_single[i].attention_mask[1]

\* C6, amended: a message's encoding in a batch is its encoding alone
\* followed only by padding: the two agree on every position of the
\* encoding alone, and every further position of the batch encoding holds
\* the pad id with attention mask 0.
C6_BatchIsPaddedSingle ==
    enc_batch # None =>
        \A i \in 1..Len(enc_single) :
            LET b_ids == enc_batch.input_ids[i]
                b_mask == enc_batch.attention_mask[i]
                s_ids == enc_single[i].input_ids[1]
                s_mask == enc_single[i].attention_mask[1]
            IN /\ Len(s_ids) <= Len(b_ids)
               /\ Len(b_mask) = Len(b_ids)
               /\ \A j \in 1..Len(s_ids) : b_ids[j] = s_ids[j] /\ b_mask[j] = s_mask[j]
               /\ \A j \in (Len(s_ids) + 1)..Len(b_ids) : b_ids[j] = PAD /\ b_mask[j] = 0

C6_Witness ==
    /\ enc_batch # None
    /\ Len(enc_single) = Len(enc_texts)
    /\ \E i \in 1..Len(enc_texts) :
         Len(enc_single[i].input_ids[1]) < Len(enc_batch.input_ids[i])
    /\ \E i \in 1..Len(enc_texts) :
         enc_single[i].input_ids[1] = enc_batch.input_ids[i]

\* C7: for a text whose tokenized length k is below L, the attention mask
\* is k ones followed by zeros up to the encoded length, one zero for each
\* pad position: the first k positions hold the text's tokens, the others
\* the pad id.
C7_MaskMarksPadding ==
    \A r \in EncodedBatchRows \cup EncodedSingles :
        LET k == TokenizedLen(r.text)
        IN k < enc_L =>
             /\ k <= Len(r.ids)
             /\ Len(r.mask) = Len(r.ids)
             /\ \A j \in 1..k : r.mask[j] = 1 /\ r.ids[j] # PAD
             /\ \A j \in (k + 1)..Len(r.ids) : r.mask[j] = 0 /\ r.ids[j] = PAD
             /\ Cardinality({j \in 1..Len(r.mask) : r.mask[j] = 0}) = Len(r.ids) - k

C7_Witness ==
    \E r \in EncodedBatchRows :
        /\ TokenizedLen(r.text) < enc_L
        /\ TokenizedLen(r.text) < Len(r.ids)
        /\ r.mask[Len(r.mask)] = 0

(***************************************************************************)
(* Properties of EmailDataset.__getitem__.                                 *)
(***************************************************************************)
ItemDataset == IF item.dataset = "train" THEN train_dataset ELSE test_dataset

\* C8 as stated: get(index) raises IndexError for every index outside
\* [0, size()), every negative index and index = size() included, and
\* returns a record for every index inside.
C8_IndexErrorOutsideRange ==
    item # None =>
        (item.result.raised = "IndexError" <=> (item.idx < 0 \/ item.idx >= item.size))

\* C8, amended: get(index) raises IndexError exactly for index >= size()
\* and for index < -size(); for every index in [0, size()) it returns that
\* position's record, and for a negative index in [-size(), 0) it returns
\* the record at position size() + index.
C8_IndexErrorOutsideWrappedRange ==
    item # None =>
        LET n == item.size
            pos == IF item.idx < 0 THEN n + item.idx + 1 ELSE item.idx + 1
        IN /\ n = DatasetLen(ItemDataset)
           /\ item.result.raised = "IndexError" <=> (item.idx >= n \/ item.idx < 0 - n)
           /\ item.result.raised # "IndexError" =>
                /\ item.result.raised = "none"
                /\ item.result.input_ids = ItemDataset.encodings.input_ids[pos]
                /\ item.result.token_type_ids = ItemDataset.encodings.token_type_ids[pos]
                /\ item.result.attention_mask = ItemDataset.encodings.attention_mask[pos]
                /\ item.result.labels = ItemDataset.labels[pos]

C8_Witness ==
    /\ item # None
    /\ item.size >= 2
    /\ item.idx = -1
    /\ item.result.raised = "none"
    /\ item.result.labels = ItemDataset.labels[item.size]

(***************************************************************************)
(* Properties of predict.                                                  *)
(***************************************************************************)
\* C9: predict returns "spam" exactly when the class-1 score is strictly
\* greater than the class-0 score and "ham" otherwise, so on equal scores
\* it returns "ham"; it returns nothing but these two strings.
C9_SpamIffStrictlyGreater ==
    \A i \in 1..Len(predictions) :
        /\ predictions[i].label \in {"spam", "ham"}
        /\ predictions[i].label = "spam" <=>
               predictions[i].logits[2] > predictions[i].logits[1]
        /\ predictions[i].logits[2] = predictions[i].logits[1] =>
               predictions[i].label = "ham"

C9_Witness ==
    /\ \E i \in 1..Len(predictions) :
         /\ predictions[i].logits[1] = predictions[i].logits[2]
         /\ predictions[i].label = "ham"
    /\ \E i \in 1..Len(predictions) :
         /\ predictions[i].logits[2] > predictions[i].logits[1]
         /\ predictions[i].label = "spam"

\* C10: two predict calls with the same message return the same label,
\* whatever calls were made in between, and every call finds the model and
\* the tokenizer as the reload left them.
C10_PredictDeterministic ==
    /\ \A i, j \in 1..Len(predictions) :
         predictions[i].message = predictions[j].message =>
             predictions[i].label = predictions[j].label
    /\ \A i \in 1..Len(predictions) :
         /\ predictions[i].model = model
         /\ predictions[i].tokenizer = tokenizer
         /\ model.weights = artifact.model

C10_Witness ==
    /\ Len(predictions) >= 3
    /\ predictions[1].message = predictions[3].message
    /\ predictions[1].message # predictions[2].message
    /\ predictions[1].label # predictions[2].label
    /\ predictions[1].label = predictions[3].label

SameObservations(a, b) ==
    /\ DatasetLen(a) = DatasetLen(b)
    /\ \A idx \in (0 - DatasetLen(a) - 1)..DatasetLen(a) :
         GetItem(a, idx) = GetItem(b, idx)

\* C13: from the construction of the two stores to the end of the run, no
\* step (a get or size call, training, evaluation, saving, predict) changes
\* what size() and get(i) return for either store, nor the encodings and
\* labelled partitions the stores were built from
C13_StoreIsPureView ==
    [][(train_dataset # None /\ train_dataset' # None) =>
          /\ SameObservations(train_dataset, train_dataset')
          /\ SameObservations(test_dataset, test_dataset')
          /\ train_encodings' = train_encodings
          /\ test_encodings' = test_encodings
          /\ Labels(train_df') = Labels(train_df)
          /\ Labels(test_df') = Labels(test_df)]_vars

\* a get on a store of two records has returned a record, and asking again
\* now gives the same record and the same size
C13_Witness ==
    /\ pc = "cell9"
    /\ item # None
    /\ item.size = 2
    /\ item.result.raised = "none"
    /\ item.result = GetItem(ItemDataset, item.idx)
    /\ item.size = DatasetLen(ItemDataset)

(***************************************************************************)
(* C14: the stages run in order, once per run, and a failure ends the run. *)
(***************************************************************************)
Stages == <<"cell3", "cell5", "cell7", "cell9", "cell11", "cell13", "cell15">>

StageRank(p) == CHOOSE r \in 1..Len(Stages) : Stages[r] = p

\* what the stages have produced is what the position in the run says: the
\* outputs of every stage before pc, and of no stage from pc on
StageOutputsInOrder ==
    /\ pc = "cell3" => ~SplitProduced /\ tokenizer = None
    /\ pc = "cell5" => SplitProduced /\ tokenizer = None /\ train_encodings = None
    /\ pc = "cell7" => train_encodings # None /\ train_dataset = None
    /\ pc = "cell9" => train_dataset # None /\ test_dataset # None /\ model = None
    /\ pc = "cell11" => model # None /\ model.training /\ tokenizer.path = "hub"
    /\ pc = "cell13" => ~model.training /\ tokenizer.path = "hub"
    /\ pc = "cell15" => ~model.training /\ tokenizer.path = "./spam_classifier_model"
    /\ pc = "failed" => error # "none"
    /\ pc # "failed" => error = "none"
    /\ predictions # <<>> => pc = "cell15"
    /\ train_encodings # None => SplitProduced
    /\ train_dataset # None => train_encodings # None
    /\ model # None => train_dataset # None

\* C14: every step is one of four: a call inside the current stage (a get
\* on a store, a predict) that leaves the stage and every stage's output as
\* they are; the completion of the current stage, which starts the next
\* one in the order load/split, encode, build store, train, evaluate,
\* save/load, predict; the failure of the current stage, after which the
\* run is over; or the start of a new run from the first stage with nothing
\* kept but the file and the saved artifact.  No stage is entered twice in a
\* run, and each stage finds the outputs of the stages before it and none
\* of its own or of later stages
C14_StagesInOrder ==
    [][/\ \/ /\ pc' = pc
              /\ UNCHANGED <<error, file, df, train_df, test_df,
                             train_encodings, test_encodings, train_dataset,
                             test_dataset, model, tokenizer, artifact>>
           \/ /\ pc \notin {"cell15", "failed"}
              /\ pc' = Stages[StageRank(pc) + 1]
              /\ error' = "none"
           \/ /\ pc \notin {"cell15", "failed"}
              /\ pc' = "failed"
              /\ error' # "none"
              /\ predictions' = <<>>
           \/ /\ pc \in {"cell15", "failed"}
              /\ pc' = "cell3"
              /\ error' = "none"
              /\ df' = <<>> /\ train_df' = <<>> /\ test_df' = <<>>
              /\ train_encodings' = None /\ test_encodings' = None
              /\ train_dataset' = None /\ test_dataset' = None
              /\ model' = None /\ tokenizer' = None
              /\ predictions' = <<>>
       /\ StageOutputsInOrder
       /\ StageOutputsInOrder']_vars

\* a second run has gone through every stage and has made a prediction
C14_Witness ==
    /\ pc = "cell15"
    /\ prev_split # None
    /\ prev_split.train # <<>>
    /\ artifact # None
    /\ predictions # <<>>

(***************************************************************************)
(* C15: predict encodes under the limit the partitions were encoded under. *)
(***************************************************************************)
\* the number of positions of every row of a batch encoding
RowLengths(encodings) ==
    {Len(encodings.input_ids[i]) : i \in 1..Len(encodings.input_ids)}

\* C15: the input of every predict call has at most 512 positions, as many
\* mask entries as ids, and exactly 512 positions when the message is
\* longer than that; for a message that fits, the input is what the encoder
\* of the training and test partitions gives for that message alone; and no
\* row of the encoded partitions has more than 512 positions either
C15_SameLimitAtInference ==
    /\ \A i \in 1..Len(predictions) :
         /\ Len(predictions[i].inputs.input_ids[1]) <= max_length
         /\ Len(predictions[i].inputs.attention_mask[1])
              = Len(predictions[i].inputs.input_ids[1])
         /\ IF predictions[i].message = LongText
            THEN Len(predictions[i].inputs.input_ids[1]) = max_length
            ELSE predictions[i].inputs = EncodeTraining(<<predictions[i].message>>)
    /\ train_encodings # None =>
          \A len \in RowLengths(train_encodings) \cup RowLengths(test_encodings) :
             len <= max_length

\* predict has been called with a message of more than 512 tokens, and its
\* input has 512 positions
C15_Witness ==
    /\ pc = "cell15"
    /\ train_encodings # None
    /\ \E i \in 1..Len(predictions) :
         /\ predictions[i].message = LongText
         /\ Len(predictions[i].inputs.input_ids[1]) = max_length
         /\ Len(predictions[i].inputs.attention_mask[1]) = max_length

(***************************************************************************)
(* C16: the store pairs each message's encoding with its own label.        *)
(***************************************************************************)
\* the record get(i) returns pairs the encoding of the partition's row i
\* (its tokens with mask 1, then padding with mask 0) with that row's label
PairsRow(record, row) ==
    /\ record.raised = "none"
    /\ record.labels = row.Category
    /\ \A one \in {EncodeOne(row.Message, max_length)} :
         /\ Len(one.input_ids) <= Len(record.input_ids)
         /\ SubSeq(record.input_ids, 1, Len(one.input_ids)) = one.input_ids
         /\ \A k \in 1..Len(record.attention_mask) :
              record.attention_mask[k] = IF k <= Len(one.input_ids) THEN 1 ELSE 0

Aligned(ds, frame) ==
    /\ DatasetLen(ds) = Len(frame)
    /\ Len(ds.labels) = Len(frame)
    /\ Len(ds.encodings.input_ids) = Len(frame)
    /\ Len(ds.encodings.attention_mask) = Len(frame)
    /\ \A i \in 0..(Len(frame) - 1) : PairsRow(GetItem(ds, i), frame[i + 1])

\* C16: for the train and the test store, size() is the number of labels,
\* the number of encoded messages and the number of rows of the partition,
\* and get(i) for every i in [0, size()) pairs the encoding of the
\* partition's i-th message with the label of the same row; a record a
\* caller has obtained with get(i) is that pair
C16_FeatureLabelAlignment ==
    /\ train_dataset # None => Aligned(train_dataset, train_df)
    /\ test_dataset # None => Aligned(test_dataset, test_df)
    /\ (item # None /\ item.idx >= 0 /\ item.idx < item.size) =>
          /\ item.size = Len(IF item.dataset = "train" THEN train_df ELSE test_df)
          /\ PairsRow(item.result,
                      (IF item.dataset = "train" THEN train_df ELSE test_df)[item.idx + 1])

\* a train store of two rows with different labels and different messages,
\* and a caller has got the second of them
C16_Witness ==
    /\ pc = "cell9"
    /\ Len(train_df) = 2
    /\ train_df[1].Category # train_df[2].Category
    /\ train_df[1].Message # train_df[2].Message
    /\ item # None
    /\ item.dataset = "train"
    /\ item.idx = 1
    /\ item.result.raised = "none"
    /\ item.result.labels = train_df[2].Category

(***************************************************************************)
(* C17: one batch call gives every row the same length.                    *)
(***************************************************************************)
\* t is min(512, the tokenized length of the longest text of the batch)
IsBatchLength(t, texts) ==
    /\ \A j \in 1..Len(texts) : Min(max_length, TokenizedLen(texts[j])) <= t
    /\ \E j \in 1..Len(texts) : Min(max_length, TokenizedLen(texts[j])) = t

\* C17: in the result of one batch call with max_length=512, every row has
\* the same number of token ids, that number is min(512, tokenized length
\* of the longest text of the batch), and every row has as many mask
\* entries as token ids, at most 512
C17_BatchUniformLength ==
    (enc_L = max_length /\ enc_batch # None) =>
       /\ Len(enc_batch.input_ids) = Len(enc_texts)
       /\ Len(enc_batch.attention_mask) = Len(enc_texts)
       /\ \A i \in 1..Len(enc_texts) :
            /\ Len(enc_batch.input_ids[i]) = Len(enc_batch.input_ids[1])
            /\ IsBatchLength(Len(enc_batch.input_ids[i]), enc_texts)
            /\ Len(enc_batch.attention_mask[i]) = Len(enc_batch.input_ids[i])
            /\ Len(enc_batch.input_ids[i]) <= max_length

\* a one-word text and a text of more than 512 tokens encoded in one call:
\* both rows have 512 positions, the first padded and the second truncated
C17_Witness ==
    /\ enc_L = max_length
    /\ enc_batch # None
    /\ enc_texts = <<ShortText, LongText>>
    /\ Len(enc_batch.input_ids[1]) = max_length
    /\ Len(enc_batch.input_ids[2]) = max_length
    /\ enc_batch.attention_mask[1][4] = 0
    /\ enc_batch.attention_mask[2][max_length] = 1

(***************************************************************************)
(* C18: predict runs on what was reloaded from the saved artifact.         *)
(***************************************************************************)
\* C18: the artifact directory is written only by the step of cell 13,
\* after training and evaluation, from the trained model and the tokenizer
\* in memory, and that same step reloads both from the directory just
\* written, before any predict call of the run; every predict call runs in
\* the last cell, on the model and tokenizer of that reload
C18_PredictUsesReloaded ==
    [][/\ (artifact' # artifact \/ (pc = "cell13" /\ pc' = "cell15")) =>
            /\ pc = "cell13"
            /\ pc' = "cell15"
            /\ model # None
            /\ artifact'.model = model.weights
            /\ artifact'.tokenizer = tokenizer.vocab
            /\ model'.weights = artifact'.model
            /\ tokenizer'.vocab = artifact'.tokenizer
            /\ tokenizer'.path = "./spam_classifier_model"
            /\ predictions = <<>>
            /\ predictions' = <<>>
       /\ predictions' # predictions /\ predictions' # <<>> =>
            /\ pc = "cell15"
            /\ Len(predictions') = Len(predictions) + 1
            /\ predictions'[Len(predictions')].model = model
            /\ predictions'[Len(predictions')].tokenizer = tokenizer
            /\ model.weights = artifact.model
            /\ tokenizer.vocab = artifact.tokenizer
            /\ tokenizer.path = "./spam_classifier_model"
            /\ UNCHANGED <<model, tokenizer, artifact>>]_vars

\* two predict calls have run, both on the model and tokenizer reloaded
\* from the artifact directory
C18_Witness ==
    /\ pc = "cell15"
    /\ artifact # None
    /\ Len(predictions) >= 2
    /\ \A i \in 1..Len(predictions) :
         /\ predictions[i].model.weights = artifact.model
         /\ predictions[i].tokenizer.vocab = artifact.tokenizer
         /\ predictions[i].tokenizer.path = "./spam_classifier_model"

====
